---- MODULE Spec2Model ----
(***************************************************************************)
(* Model of the transcoder: the file ledger (database.rs), the collector   *)
(* (collect.rs) and the transcode orchestrator (transcode.rs, main.rs).    *)
(***************************************************************************)
EXTENDS Integers, Sequences, FiniteSets, TLC

VARIABLES
    ledger,     \* table transcode_files: sequence of rows, rowid = index
    fs,         \* the filesystem: path -> file content, or NoFile
    now,        \* the wall clock, in seconds (Timestamp::now().as_second())
    op,         \* the most recent ledger call: its arguments and its result
    run,        \* the transcode command in progress (options, phase, result)
    files,      \* Transcoder.files: Vec<VideoFile> of the run
    job,        \* per index of files: where transcode_file stands for it
    proc,       \* per index of files: the ffmpeg child process spawned for it
    total_progress  \* position of the run-wide progress bar (milliseconds)

vars == <<ledger, fs, now, op, run, files, job, proc, total_progress>>

----------------------------------------------------------------------------
(* Bounds of the model *)

MaxTime == 1        \* the clock runs over 0..MaxTime
MaxSize == 2        \* file sizes are 1..MaxSize bytes
MaxBatch == 2       \* records in one insert_batch call of the ledger specification

----------------------------------------------------------------------------
(* Option<T> and SQL NULL *)

None == <<>>
Some(x) == <<x>>

(* TranscodeStatus, stored as `status as i32` *)
Pending == 0
Success == 1
Error == 2

(* The column default of status in init_db.sql *)
DefaultStatus == Pending

----------------------------------------------------------------------------
(* Paths: a file name is stem.ext, all in one directory *)

Path(stem, ext) == [stem |-> stem, ext |-> ext]

SrcPaths == {Path("a", "mkv"), Path("a", "avi"), Path("b", "mkv")}

(* The files a directory may hold at the start: source files, and in the  *)
(* last case the output an earlier run made of a.mkv.                      *)
SrcSets == {{Path("a", "mkv"), Path("a", "avi")}, {Path("a", "mkv"), Path("b", "mkv")},
            {Path("a", "mkv"), Path("b", "mkv"), Path("a_av1", "mp4")}}

(* Their sizes in bytes: a.mkv is the largest *)
SrcSize(path) == IF path = Path("a", "mkv") THEN MaxSize + 1 ELSE MaxSize

(* transcode_file: file.path.with_file_name(format!("{stem}_av1.mp4")) *)
OutFile(path) == Path(path.stem \o "_av1", "mp4")

(* transcode_file: file.path.with_file_name(format!("{stem}_tmp.mp4")) *)
TmpFile(path) == Path(path.stem \o "_tmp", "mp4")

AllPaths == SrcPaths \cup {OutFile(p) : p \in SrcPaths} \cup {TmpFile(p) : p \in SrcPaths}

(* The order in which a directory walk meets the paths *)
WalkOrder ==
    <<Path("a", "avi"), Path("a", "mkv"), Path("a_av1", "mp4"), Path("a_tmp", "mp4"),
      Path("b", "mkv"), Path("b_av1", "mp4"), Path("b_tmp", "mp4")>>

(* A file on disk: its video codec, its size, and the source file whose    *)
(* pictures it holds.  NoFile stands for a path that does not exist.       *)
File(codec, size, of) == [codec |-> codec, size |-> size, of |-> of]
NoFile == File("", 0, Path("", ""))
Exists(disk, path) == disk[path] # NoFile

(* ffprobe output kept by the ledger: the fields VideoFile reads *)
Probe(codec, duration) == [codec |-> codec, duration |-> duration]

(* Duration in seconds that ffprobe reports for a source file *)
DurationOf(path) == IF path.stem = "a" THEN 1 ELSE 2

----------------------------------------------------------------------------
(* database.rs *)

HasPath(rows, path) == \E i \in DOMAIN rows : rows[i].path = path

Ok(v) == [ok |-> TRUE, val |-> v]
Err(e) == [ok |-> FALSE, err |-> e]

(* The row an INSERT of insert_batch creates at time t: status and         *)
(* error_message are not named by the statement and take their defaults.   *)
NewRow(file, t) ==
    [path |-> file.path,
     status |-> DefaultStatus,
     created_on |-> t,
     updated_on |-> t,
     error_message |-> None,
     file_size |-> file.file_size,
     ffprobe_info |-> Some(file.ffprobe_info)]

(* INSERT ... without a conflict clause, as in the test-only Database::insert *)
InsertRowStrict(rows, file, t) ==
    IF HasPath(rows, file.path)
    THEN Err("UNIQUE constraint failed: transcode_files.path")
    ELSE Ok(Append(rows, NewRow(file, t)))

(* INSERT ... ON CONFLICT (path) DO UPDATE: overwrites the existing row *)
InsertRowUpsert(rows, file, t) ==
    IF HasPath(rows, file.path)
    THEN Ok([i \in DOMAIN rows |->
                IF rows[i].path = file.path THEN NewRow(file, t) ELSE rows[i]])
    ELSE Ok(Append(rows, NewRow(file, t)))

(* One statement.execute of insert_batch:                                  *)
(* INSERT ... ON CONFLICT (path) DO NOTHING                                *)
InsertRow(rows, file, t) ==
    IF HasPath(rows, file.path)
    THEN Ok(rows)
    ELSE Ok(Append(rows, NewRow(file, t)))

(* A failed call that leaves the table holding `rows` *)
Failed(e, rows) == [ok |-> FALSE, err |-> e, val |-> rows]

(* The loop of insert_batch inside its transaction: the first failing      *)
(* statement ends it through `?`.  `fail_at` is the statement at which the *)
(* store fails (0: none); the result holds the rows written so far.        *)
RECURSIVE InsertLoop(_, _, _, _)
InsertLoop(rows, batch, t, fail_at) ==
    IF batch = <<>> THEN Ok(rows)
    ELSE IF fail_at = 1 THEN Failed("store unavailable", rows)
    ELSE LET r == InsertRow(rows, Head(batch), t)
         IN  IF r.ok THEN InsertLoop(r.val, Tail(batch), t, fail_at - 1)
             ELSE Failed(r.err, rows)

(* The store failures of an insert_batch of `batch`: none (0), the k-th    *)
(* statement, or the call as a whole (pool.get, prepare, commit).          *)
BatchFaults(batch) == 0..(Len(batch) + 1)

(* A variant without a transaction: what was written stays *)
KeepWritten(before, written) == written

(* Dropping a Transaction that was not committed rolls it back *)
RollBack(before, written) == before

(* Database::insert_batch at time t with the store failure `fault`: the    *)
(* result of the call and the table it leaves.                             *)
InsertBatchResult(rows, batch, t, fault) ==
    LET r == InsertLoop(rows, batch, t, fault)
    IN  IF ~r.ok THEN Failed(r.err, RollBack(rows, r.val))
        ELSE IF fault # 0 THEN Failed("store unavailable", RollBack(rows, r.val))
        ELSE r

(* A variant that leaves error_message as it is *)
SetFileStatusOnly(rows, rowid, status, error_message, t) ==
    [i \in DOMAIN rows |->
        IF i = rowid
        THEN [rows[i] EXCEPT !.status = status, !.updated_on = t]
        ELSE rows[i]]

(* A variant that writes error_message only when one is given *)
SetFileStatusKeepMessage(rows, rowid, status, error_message, t) ==
    [i \in DOMAIN rows |->
        IF i = rowid
        THEN [rows[i] EXCEPT !.status = status,
                             !.updated_on = t,
                             !.error_message = IF error_message = None THEN @
                                               ELSE error_message]
        ELSE rows[i]]

(* Database::set_file_status: UPDATE ... WHERE rowid = ?4 *)
SetFileStatusRows(rows, rowid, status, error_message, t) ==
    [i \in DOMAIN rows |->
        IF i = rowid
        THEN [rows[i] EXCEPT !.status = status,
                             !.updated_on = t,
                             !.error_message = error_message]
        ELSE rows[i]]

(* ORDER BY file_size DESC: the orders SQL allows, rows of equal size in   *)
(* either order.  A row carries its rowid: the query selects rowid too.    *)
WithRowid(rows) == [i \in DOMAIN rows |-> [rowid |-> i] @@ rows[i]]

(* A variant that sorts smallest first *)
IsSortedAsc(s) == \A i, j \in DOMAIN s : i < j => s[i].file_size <= s[j].file_size

IsSortedDesc(s) == \A i, j \in DOMAIN s : i < j => s[i].file_size >= s[j].file_size

RowOrders(rows) ==
    {p \in [DOMAIN rows -> DOMAIN rows] : \A i \in DOMAIN rows : \E j \in DOMAIN rows : p[j] = i}

Min(a, b) == IF a < b THEN a ELSE b

(* Database::list_limit(count): LIMIT ?1 with count.unwrap_or(i64::MAX);   *)
(* SQLite reads a negative LIMIT as no limit.  The set of possible results.*)
ListLimit(rows, count) ==
    LET all == WithRowid(rows)
        n == IF count = None THEN Len(rows)
             ELSE IF count[1] < 0 THEN Len(rows) ELSE Min(count[1], Len(rows))
        sorted == {s \in {[i \in DOMAIN rows |-> all[p[i]]] : p \in RowOrders(rows)} :
                      IsSortedDesc(s)}
    IN  {SubSeq(s, 1, n) : s \in sorted}

----------------------------------------------------------------------------
(* The ledger calls as operations on the state *)

NoOp == [name |-> "none", paths |-> {}, rowid |-> 0, status |-> Pending,
         error_message |-> None, was |-> Pending, count |-> None, rows |-> <<>>,
         result |-> "none"]

PathsOf(batch) == {batch[i].path : i \in DOMAIN batch}

InsertOp(batch, r) ==
    [NoOp EXCEPT !.name = "insert_batch", !.paths = PathsOf(batch),
                 !.result = IF r.ok THEN "Ok" ELSE r.err]

(* `was` is the status of the row before the call *)
StatusOp(rowid, status, error_message, was, result) ==
    [NoOp EXCEPT !.name = "set_file_status", !.rowid = rowid, !.status = status,
                 !.error_message = error_message, !.was = was, !.result = result]

ListOp(count, rows) ==
    [NoOp EXCEPT !.name = "list_limit", !.count = count, !.rows = rows, !.result = "Ok"]

(* Database::insert_batch(files): reads the clock, runs the transaction *)
InsertBatch(batch, t, fault) ==
    LET r == InsertBatchResult(ledger, batch, t, fault)
    IN  /\ now' = t
        /\ ledger' = r.val
        /\ op' = InsertOp(batch, r)

(* Database::set_file_status(rowid, status, error_message) *)
SetFileStatus(rowid, status, error_message, t, fault) ==
    /\ now' = t
    /\ ledger' = IF fault THEN ledger
                 ELSE SetFileStatusRows(ledger, rowid, status, error_message, t)
    /\ op' = StatusOp(rowid, status, error_message, ledger[rowid].status,
                      IF fault THEN "store unavailable" ELSE "Ok")

----------------------------------------------------------------------------
(* State of a run of the transcode command *)

NoRun == [phase |-> "idle", dry_run |-> FALSE, replace |-> FALSE, parallel |-> 1,
          result |-> "none", n |-> 0]

(* A directory holding the files `present`: source files as h264, an      *)
(* output of an earlier run as av1 of one byte.                            *)
Disk(present) ==
    [p \in AllPaths |->
        IF p \notin present THEN NoFile
        ELSE IF p \in SrcPaths THEN File("h264", SrcSize(p), p)
        ELSE File("av1", 1, CHOOSE q \in SrcPaths : q \in present /\ OutFile(q) = p)]

InitRest ==
    /\ ledger = <<>>
    /\ now = 0
    /\ op = NoOp
    /\ run = NoRun
    /\ files = <<>>
    /\ job = <<>>
    /\ proc = <<>>
    /\ total_progress = 0

Init ==
    /\ \E present \in SrcSets : fs = Disk(present)
    /\ InitRest

----------------------------------------------------------------------------
(* The ledger on its own: any batch, any status write *)

LedgerPaths == {Path("a", "mkv"), Path("b", "mkv")}

NewFiles == [path : LedgerPaths, file_size : {1, MaxSize}, ffprobe_info : {Probe("h264", 1)}]

Batches == UNION {[1..n -> NewFiles] : n \in 0..MaxBatch}

StatusWrites == {<<Success, None>>, <<Error, Some("command ffmpeg failed")>>}

LedgerInsertBatch ==
    \E batch \in Batches : \E fault \in BatchFaults(batch) :
        /\ InsertBatch(batch, now, fault)
        /\ UNCHANGED <<fs, run, files, job, proc, total_progress>>

LedgerSetFileStatus ==
    \E rowid \in DOMAIN ledger : \E w \in StatusWrites :
    \E fault \in BOOLEAN :
        /\ SetFileStatus(rowid, w[1], w[2], now, fault)
        /\ UNCHANGED <<fs, run, files, job, proc, total_progress>>

(* Time passes between two calls *)
LedgerTick ==
    /\ now < MaxTime
    /\ now' = now + 1
    /\ UNCHANGED <<ledger, fs, op, run, files, job, proc, total_progress>>

NextLedger == LedgerInsertBatch \/ LedgerSetFileStatus \/ LedgerTick

InitLedger == fs = Disk({}) /\ InitRest

SpecLedger == InitLedger /\ [][NextLedger]_vars

(* No two rows of `rows` hold the same path *)
UniquePaths(rows) == \A i, j \in DOMAIN rows : rows[i].path = rows[j].path => i = j

(* The step is a call of insert_batch: the call recorded after it is one, *)
(* and the step is not the clock alone.                                    *)
IsInsertBatchStep == op'.name = "insert_batch" /\ now' = now

(* C1: after any sequence of insert_batch calls the ledger holds one row   *)
(* per distinct path; an insert_batch whose paths all have a row adds no   *)
(* row and does not return a unique-constraint error: it returns Ok unless *)
(* the store itself is unavailable.                                        *)
C1_InsertBatchIdempotent ==
    [][/\ UniquePaths(ledger')
       /\ (IsInsertBatchStep /\ \A p \in op'.paths : HasPath(ledger, p))
             => /\ Len(ledger') = Len(ledger)
                /\ op'.result \in {"Ok", "store unavailable"}
       /\ (IsInsertBatchStep /\ op'.result = "Ok")
             => \A p \in op'.paths : HasPath(ledger', p)]_vars

(* An insert_batch that returned Ok for a path whose row an earlier call   *)
(* had made.                                                               *)
C1_Witness ==
    /\ op.name = "insert_batch"
    /\ op.result = "Ok"
    /\ \E i \in DOMAIN ledger : ledger[i].path \in op.paths /\ ledger[i].created_on < now

(* C2: insert_batch leaves every column of every row that exists before    *)
(* the call as it is, whatever the records of the batch carry; a row that  *)
(* is Success or Error stays so.                                           *)
C2_InsertBatchKeepsRows ==
    [][IsInsertBatchStep
         => /\ Len(ledger') >= Len(ledger)
            /\ \A i \in DOMAIN ledger : ledger'[i] = ledger[i]]_vars

(* An insert_batch that returned Ok for the path of a row written Error    *)
(* before it, of another size than the one offered again.                  *)
C2_Witness ==
    /\ op.name = "insert_batch"
    /\ op.result = "Ok"
    /\ \E i \in DOMAIN ledger :
          /\ ledger[i].path \in op.paths
          /\ ledger[i].status = Error
          /\ ledger[i].updated_on < now
          /\ ledger[i].file_size = MaxSize

----------------------------------------------------------------------------
(* collect.rs *)

EXTENSIONS == {"mp4", "mkv", "avi", "mov", "wmv", "flv", "webm", "m4v"}

(* A variant that excludes no codec *)
NoExcludedCodecs == {}

ExcludedCodecs == {"hevc", "av1"}

EndsWith(str, suffix) ==
    /\ Len(str) >= Len(suffix)
    /\ SubSeq(str, Len(str) - Len(suffix) + 1, Len(str)) = suffix

(* The walk of gather_files: files with a video extension whose stem does  *)
(* not end in _tmp.                                                        *)
IsCandidate(disk, path) ==
    /\ Exists(disk, path)
    /\ path.ext \in EXTENSIONS
    /\ ~EndsWith(path.stem, "_tmp")

(* ffprobe of a file on disk *)
FfprobeOf(disk, path) == Probe(disk[path].codec, DurationOf(disk[path].of))

(* The records gather_files hands to insert_batch, with no exclude        *)
(* pattern, no minimum size and an ffprobe that reads every file.          *)
GatherRecords(disk) ==
    LET kept == SelectSeq(WalkOrder,
                    LAMBDA p : /\ IsCandidate(disk, p)
                               /\ FfprobeOf(disk, p).codec \notin ExcludedCodecs)
    IN  [i \in DOMAIN kept |->
            [path |-> kept[i], file_size |-> disk[kept[i]].size,
             ffprobe_info |-> FfprobeOf(disk, kept[i])]]

----------------------------------------------------------------------------
(* ffprobe.rs: commandline_error *)

(* Bytes a child process wrote: text, or bytes that are not UTF-8 *)
Bytes(utf8, text) == [utf8 |-> utf8, text |-> text]

(* std::str::from_utf8 *)
FromUtf8(bytes) == IF bytes.utf8 THEN Ok(bytes.text) ELSE Err("invalid utf-8 sequence")

(* The message of the error commandline_error builds; both from_utf8       *)
(* results are unwrapped, so bytes that are not UTF-8 panic.               *)
CommandlineError(command_name, code, stdout, stderr) ==
    IF FromUtf8(stdout).ok /\ FromUtf8(stderr).ok
    THEN Ok("command " \o command_name \o " failed with exit code " \o ToString(code)
            \o ", stdout:\n'" \o FromUtf8(stdout).val
            \o "'\nstderr:\n'" \o FromUtf8(stderr).val \o "'")
    ELSE Err("panic")

----------------------------------------------------------------------------
(* main.rs and transcode.rs *)

MaxRuns == 2        \* transcode commands in one behaviour
MaxParallel == 2    \* --parallel is 1..MaxParallel

(* --number *)
Numbers == {None, Some(1)}

(* out_time_us values an encoder may print *)
OutTimes == {1500, 1000000}

(* Sizes of an encoder's output file *)
OutSizes == {1, MaxSize + 1}

(* What an encoder may leave on stderr when it fails *)
Stderrs == {Bytes(TRUE, "unsupported pixel format"), Bytes(FALSE, "")}

NoBytes == Bytes(TRUE, "")

(* Chunks a pipe holds before a write to it blocks *)
PipeCap == 1

(* Exit codes of the encoder *)
ExitCodes == {0, 1}

(* The modulus of the progress counters: u64 in the program, a word wide   *)
(* enough for every position of the model here.                            *)
WordMod == 65536

(* impl From<TranscodeFile> for VideoFile *)
VideoFileFrom(row) ==
    IF row.ffprobe_info = None THEN Err("ffprobe info must be present")
    ELSE Ok([rowid |-> row.rowid,
             path |-> row.path,
             duration |-> row.ffprobe_info[1].duration,
             codec |-> row.ffprobe_info[1].codec,
             file_size |-> row.file_size])

(* A variant that credits the seconds *)
DurationSeconds(file) == file.duration

(* (file.duration * 1000.0) as u64 *)
DurationMillis(file) == file.duration * 1000

(* Duration::from_micros(us).as_millis() *)
AsMillis(us) == us \div 1000

(* A variant that sets the position to the delta *)
SetPosition(position, delta) == delta % WordMod

(* ProgressBar::inc(delta): an atomic add on the u64 position *)
Inc(position, delta) == (position + delta) % WordMod

(* transcode_file for one file: `pos` is the position of its progress bar, *)
(* `delta` the delta it has added to `pos` and not yet to total_progress,  *)
(* `new_file_size` the size it read of its temporary file.                 *)
NoJob == [pc |-> "todo", outcome |-> "none", by |-> 0, last_postion |-> 0, pos |-> 0,
          delta |-> 0, new_file_size |-> 0]

(* A child process: `wrote` once it has created its output file, `output`  *)
(* the std::process::Output that wait_with_output returned for it,         *)
(* `stderr` the chunks in its stderr pipe that nobody has read yet, and    *)
(* `blocked` while it is in a write to that pipe with the pipe full.       *)
NoProc == [state |-> "none", wrote |-> FALSE, output |-> None, stderr |-> 0,
           blocked |-> FALSE]

Output(code, stderr) == [code |-> code, stderr |-> stderr]

Idx == DOMAIN files

Active(i) == job[i].pc \notin {"todo", "done"}

Busy(w) == \E i \in Idx : Active(i) /\ job[i].by = w

(* A variant in which the pool hands the file out again *)
HandedOutAgain(j, outcome) == [j EXCEPT !.pc = "todo", !.outcome = outcome]

(* The job ends: transcode_file returns (or unwinds) with `outcome` *)
Finished(j, outcome) ==
    [j EXCEPT !.pc = "done", !.outcome = outcome, !.last_postion = 0, !.delta = 0,
              !.new_file_size = 0]

(* The scan command: Collector::gather_files.  The clock is read here, and *)
(* a transcode command writes with the time of the scan before it.        *)
Scan ==
    /\ run.phase = "idle"
    /\ \E t \in now..MaxTime : \E fault \in BatchFaults(GatherRecords(fs)) :
          InsertBatch(GatherRecords(fs), t, fault)
    /\ UNCHANGED <<fs, run, files, job, proc, total_progress>>

(* The transcode command up to the parallel loop of transcode_all:         *)
(* list_limit, the conversion to VideoFile, the thread pool, the terminal. *)
(* `parallels` are the values of --parallel, `max_runs` the number of      *)
(* transcode commands of a behaviour.  `fault` is a failure before any     *)
(* file is started: list_limit (the store, or a row that cannot be read    *)
(* back), the pool, the terminal.                                          *)
StartTranscode(parallels, max_runs) ==
    /\ run.phase = "idle"
    /\ run.n < max_runs
    /\ \E dry_run \in BOOLEAN, replace \in BOOLEAN, parallel \in parallels,
          number \in Numbers, fault \in BOOLEAN :
       \E listed \in ListLimit(ledger, number) :
          LET conv == [i \in DOMAIN listed |-> VideoFileFrom(listed[i])]
              opts == [NoRun EXCEPT !.dry_run = dry_run, !.replace = replace,
                                    !.parallel = parallel, !.n = run.n + 1]
          IN  /\ IF \E i \in DOMAIN conv : ~conv[i].ok
                 THEN /\ run' = [opts EXCEPT !.phase = "returned", !.result = "Panic"]
                      /\ files' = <<>>
                 ELSE IF fault
                 THEN /\ run' = [opts EXCEPT !.phase = "returned", !.result = "Err"]
                      /\ files' = <<>>
                 ELSE /\ run' = [opts EXCEPT !.phase = "running"]
                      /\ files' = [i \in DOMAIN conv |-> conv[i].val]
              /\ job' = [i \in DOMAIN files' |-> NoJob]
              /\ proc' = [i \in DOMAIN files' |-> NoProc]
    /\ total_progress' = 0
    /\ op' = NoOp
    /\ UNCHANGED <<ledger, fs, now>>

(* The pool thread that takes the next job: the threads are alike, and the *)
(* lowest idle one stands for any of them.                                 *)
IdleWorker(w) ==
    /\ w \in 1..run.parallel
    /\ ~Busy(w)
    /\ \A v \in 1..(w - 1) : Busy(v)

(* A variant that looks for the temporary file instead of the output *)
TmpFileIsFile(disk, file) == Exists(disk, TmpFile(file.path))

(* out_file.is_file() *)
OutFileIsFile(disk, file) == Exists(disk, OutFile(file.path))

(* transcode_file from its start to the spawn of ffmpeg: the out_file      *)
(* check, the dry run, Command::spawn.                                     *)
Begin(w, i, spawn_fault) ==
    /\ run.phase = "running"
    /\ IdleWorker(w)
    /\ job[i].pc = "todo"
    /\ LET file == files[i]
           mine == [job[i] EXCEPT !.by = w]
       IN  IF OutFileIsFile(fs, file)
           THEN /\ job' = [job EXCEPT ![i] = Finished(mine, "skipped")]
                /\ UNCHANGED <<proc, total_progress>>
           ELSE IF run.dry_run
           THEN /\ job' = [job EXCEPT ![i] = Finished(mine, "dry_run")]
                /\ total_progress' = Inc(total_progress, DurationMillis(file))
                /\ UNCHANGED proc
           ELSE IF spawn_fault
           THEN /\ job' = [job EXCEPT ![i] = Finished(mine, "spawn_failed")]
                /\ UNCHANGED <<proc, total_progress>>
           ELSE /\ job' = [job EXCEPT ![i] = [mine EXCEPT !.pc = "read"]]
                /\ proc' = [proc EXCEPT ![i] = [NoProc EXCEPT !.state = "running"]]
                /\ UNCHANGED total_progress
    /\ UNCHANGED <<ledger, fs, now, op, run, files>>

(* A variant that adds the position instead of the delta *)
NoDelta(millis, last_postion) == millis

(* let delta = millis - last_postion, on u64 without overflow checks *)
Delta(millis, last_postion) == (millis - last_postion) % WordMod

(* One pass of the loop over reader.lines() with a line that matches       *)
(* OUT_TIME_REGEX, up to progress.inc(delta).  millis - last_postion       *)
(* underflows when the position goes back: a panic in a build with         *)
(* overflow checks, a wrapped delta in a build without.                    *)
ReadLine(i, us, overflow_checks) ==
    /\ run.phase = "running"
    /\ job[i].pc = "read"
    /\ proc[i].state = "running"
    /\ ~proc[i].blocked
    /\ LET millis == AsMillis(us)
           last == job[i].last_postion
           delta == Delta(millis, last)
       IN  job' = [job EXCEPT ![i] =
                     IF millis < last /\ overflow_checks
                     THEN Finished(job[i], "panic")
                     ELSE [@ EXCEPT !.pos = Inc(@, delta),
                                    !.delta = delta,
                                    !.pc = "credit"]]
    /\ UNCHANGED <<ledger, fs, now, op, run, files, proc, total_progress>>

(* The rest of the pass: total_progress.inc(delta), an atomic add, and     *)
(* last_postion = millis, which is last_postion + delta.                   *)
IncTotal(i) ==
    /\ run.phase = "running"
    /\ job[i].pc = "credit"
    /\ total_progress' = Inc(total_progress, job[i].delta)
    /\ job' = [job EXCEPT ![i] =
                 [@ EXCEPT !.last_postion = (@ + job[i].delta) % WordMod,
                           !.delta = 0,
                           !.pc = "read"]]
    /\ UNCHANGED <<ledger, fs, now, op, run, files, proc>>

(* A line that cannot be read (line?) or whose digits do not fit u64       *)
(* (parse::<u64>()?): transcode_file returns the error, and the Child is   *)
(* dropped without being waited for or killed.                             *)
ReadError(i) ==
    /\ run.phase = "running"
    /\ job[i].pc = "read"
    /\ proc[i].state = "running"
    /\ ~proc[i].blocked
    /\ job' = [job EXCEPT ![i] = Finished(job[i], "stream_error")]
    /\ UNCHANGED <<ledger, fs, now, op, run, files, proc, total_progress>>

(* The encoder has exited non-zero: commandline_error, then              *)
(* set_file_status(Error) with its message.                                *)
EncodeFailed(i, code, stderr, store_fault) ==
    LET e == CommandlineError("ffmpeg", code, NoBytes, stderr)
    IN  IF ~e.ok
        THEN /\ job' = [job EXCEPT ![i] = Finished(job[i], "panic")]
             /\ UNCHANGED <<ledger, now, op>>
        ELSE /\ SetFileStatus(files[i].rowid, Error, Some(e.val), now, store_fault)
             /\ job' = [job EXCEPT ![i] =
                          Finished(job[i], IF store_fault THEN "store_error"
                                           ELSE "encode_failed")]

(* A variant that rejects no output *)
NeverLarger(new_file_size, file_size) == FALSE

(* A variant that accepts an output of the same size *)
StrictlyLarger(new_file_size, file_size) == new_file_size > file_size

(* new_file_size >= file.file_size *)
NotSmaller(new_file_size, file_size) == new_file_size >= file_size

(* The encoder has exited zero: fs::metadata(&tmp_file) and the comparison *)
(* of the sizes.                                                           *)
EncodeSucceeded(i, fs_fault) ==
    LET tmp_file == TmpFile(files[i].path)
        measured == [job[i] EXCEPT !.new_file_size = fs[tmp_file].size]
    IN  /\ job' = [job EXCEPT ![i] =
                IF fs_fault \/ ~Exists(fs, tmp_file) THEN Finished(job[i], "fs_error")
                ELSE IF NotSmaller(fs[tmp_file].size, files[i].file_size)
                     THEN [measured EXCEPT !.pc = "remove_tmp"]
                ELSE IF run.replace THEN [measured EXCEPT !.pc = "remove_orig"]
                ELSE [measured EXCEPT !.pc = "rename_out"]]
        /\ UNCHANGED <<ledger, now, op>>

(* The encoder closes its output and exits with `code`, leaving `stderr`;  *)
(* the reader meets the end of the stream and process.wait_with_output()   *)
(* reads what is in the stderr pipe and returns.  The encoder exits zero   *)
(* only once it has written its output, and not from inside a write.       *)
WaitWithOutput(i, code, stderr, fault) ==
    /\ run.phase = "running"
    /\ job[i].pc = "read"
    /\ proc[i].state = "running"
    /\ ~proc[i].blocked
    /\ code = 0 => proc[i].wrote
    /\ proc' = [proc EXCEPT ![i] =
                   [NoProc EXCEPT !.state = "reaped",
                                  !.output = Some(Output(code, IF code = 0 THEN NoBytes
                                                               ELSE stderr))]]
    /\ IF code # 0 THEN EncodeFailed(i, code, stderr, fault) ELSE EncodeSucceeded(i, fault)
    /\ UNCHANGED <<fs, run, files, total_progress>>

(* fs::remove_file(path): fails when the path does not exist, or on a      *)
(* fault of the filesystem.                                                *)
RemoveFile(disk, path, fault) ==
    IF fault \/ ~Exists(disk, path) THEN Err("remove failed")
    ELSE Ok([disk EXCEPT ![path] = NoFile])

(* A variant that copies and leaves `from` in place *)
CopyFile(disk, from, to, fault) ==
    IF fault \/ ~Exists(disk, from) THEN Err("copy failed")
    ELSE Ok([disk EXCEPT ![to] = disk[from]])

(* fs::rename(from, to): replaces `to` when it exists *)
Rename(disk, from, to, fault) ==
    IF fault \/ ~Exists(disk, from) THEN Err("rename failed")
    ELSE Ok([disk EXCEPT ![to] = disk[from], ![from] = NoFile])

(* One filesystem call of the finalize of job i: on success the job goes   *)
(* on at `next`, or returns Ok with outcome `next_outcome` when next is    *)
(* "done"; on failure `?` returns the error.                               *)
FsStep(i, r, next, next_outcome) ==
    /\ fs' = IF r.ok THEN r.val ELSE fs
    /\ job' = [job EXCEPT ![i] =
                 IF ~r.ok THEN Finished(job[i], "fs_error")
                 ELSE IF next = "done" THEN Finished(job[i], next_outcome)
                 ELSE [job[i] EXCEPT !.pc = next]]
    /\ UNCHANGED <<ledger, now, op, run, files, proc, total_progress>>

(* The output is not smaller: fs::remove_file(tmp_file), return Ok *)
RemoveTmp(i, fault) ==
    /\ run.phase = "running"
    /\ job[i].pc = "remove_tmp"
    /\ FsStep(i, RemoveFile(fs, TmpFile(files[i].path), fault), "done", "not_smaller")

(* options.replace: fs::remove_file(&file.path) *)
RemoveOrig(i, fault) ==
    /\ run.phase = "running"
    /\ job[i].pc = "remove_orig"
    /\ FsStep(i, RemoveFile(fs, files[i].path, fault), "rename_replace", "none")

(* options.replace: fs::rename(tmp_file, &file.path) *)
RenameReplace(i, fault) ==
    /\ run.phase = "running"
    /\ job[i].pc = "rename_replace"
    /\ FsStep(i, Rename(fs, TmpFile(files[i].path), files[i].path, fault),
              "set_success", "none")

(* fs::rename(tmp_file, out_file) *)
RenameOut(i, fault) ==
    /\ run.phase = "running"
    /\ job[i].pc = "rename_out"
    /\ FsStep(i, Rename(fs, TmpFile(files[i].path), OutFile(files[i].path), fault),
              "set_success", "none")

(* set_file_status(file.rowid, TranscodeStatus::Success, None) *)
SetSuccess(i, fault) ==
    /\ run.phase = "running"
    /\ job[i].pc = "set_success"
    /\ SetFileStatus(files[i].rowid, Success, None, now, fault)
    /\ job' = [job EXCEPT ![i] =
                 Finished(job[i], IF fault THEN "store_error" ELSE "success")]
    /\ UNCHANGED <<fs, run, files, proc, total_progress>>

(* The end of the parallel loop: every job has been run.  A panic of a     *)
(* job is resumed on the caller, anything else is Ok.                      *)
FinishRun ==
    /\ run.phase = "running"
    /\ \A i \in Idx : job[i].pc = "done"
    /\ run' = [run EXCEPT !.phase = "returned",
                          !.result = IF \E i \in Idx : job[i].outcome = "panic"
                                     THEN "Panic" ELSE "Ok"]
    /\ UNCHANGED <<ledger, fs, now, op, files, job, proc, total_progress>>

(* main returns and the process ends *)
ProcessExit ==
    /\ run.phase = "returned"
    /\ run' = [NoRun EXCEPT !.n = run.n]
    /\ files' = <<>>
    /\ job' = <<>>
    /\ proc' = <<>>
    /\ total_progress' = 0
    /\ op' = NoOp
    /\ UNCHANGED <<ledger, fs, now>>

----------------------------------------------------------------------------
(* ffmpeg, as the orchestrator meets it *)

(* ffmpeg -y ... tmp_file: the encoder writes its output file *)
EncoderWrite(i, size) ==
    /\ run.phase = "running"
    /\ proc[i].state = "running"
    /\ ~proc[i].wrote
    /\ ~proc[i].blocked
    /\ fs' = [fs EXCEPT ![TmpFile(files[i].path)] = File("av1", size, fs[files[i].path].of)]
    /\ proc' = [proc EXCEPT ![i].wrote = TRUE]
    /\ UNCHANGED <<ledger, now, op, run, files, job, total_progress>>

(* ffmpeg logs to stderr, which is Stdio::piped() and is read by nobody     *)
(* before wait_with_output: the chunk goes into the pipe, or the write     *)
(* blocks when the pipe holds PipeCap chunks.                              *)
EncoderLog(i) ==
    /\ run.phase = "running"
    /\ proc[i].state = "running"
    /\ job[i].pc # "done"
    /\ ~proc[i].blocked
    /\ proc' = [proc EXCEPT ![i] =
                   IF @.stderr < PipeCap THEN [@ EXCEPT !.stderr = @ + 1]
                   ELSE [@ EXCEPT !.blocked = TRUE]]
    /\ UNCHANGED <<ledger, fs, now, op, run, files, job, total_progress>>

(* An encoder whose Child was dropped exits: nobody waits for it *)
EncoderExit(i) ==
    /\ run.phase = "running"
    /\ job[i].pc = "done"
    /\ proc[i].state = "running"
    /\ proc' = [proc EXCEPT ![i] = [NoProc EXCEPT !.state = "exited"]]
    /\ UNCHANGED <<ledger, fs, now, op, run, files, job, total_progress>>

----------------------------------------------------------------------------

(* The steps of a run of transcode_all, of its encoders and of the scan;  *)
(* `faults` says whether the store, the filesystem and spawn may fail.     *)
Steps(faults) ==
    \/ Scan
    \/ \E i \in Idx : \E w \in 1..MaxParallel : \E fault \in faults : Begin(w, i, fault)
    \/ \E i \in Idx : \E us \in OutTimes : \E checks \in BOOLEAN : ReadLine(i, us, checks)
    \/ \E i \in Idx : IncTotal(i)
    \/ \E i \in Idx : ReadError(i)
    \/ \E i \in Idx : \E code \in ExitCodes : \E stderr \in Stderrs : \E fault \in faults :
          WaitWithOutput(i, code, stderr, fault)
    \/ \E i \in Idx : \E fault \in faults : RemoveTmp(i, fault)
    \/ \E i \in Idx : \E fault \in faults : RemoveOrig(i, fault)
    \/ \E i \in Idx : \E fault \in faults : RenameReplace(i, fault)
    \/ \E i \in Idx : \E fault \in faults : RenameOut(i, fault)
    \/ \E i \in Idx : \E fault \in faults : SetSuccess(i, fault)
    \/ FinishRun
    \/ ProcessExit
    \/ \E i \in Idx : \E size \in OutSizes : EncoderWrite(i, size)
    \/ \E i \in Idx : EncoderExit(i)

(* One transcode command with a pool of up to MaxParallel threads *)
Next == StartTranscode(1..MaxParallel, 1) \/ Steps(BOOLEAN)

Spec == Init /\ [][Next]_vars

(* Up to MaxRuns transcode commands, one after the other, each with a pool *)
(* of one thread, on a store and a filesystem that do not fail.            *)
NextRuns == StartTranscode({1}, MaxRuns) \/ Steps({FALSE})

SpecRuns == Init /\ [][NextRuns]_vars

(* One transcode command with one thread and an encoder that logs to       *)
(* stderr, on a store and a filesystem that do not fail.                   *)
NextPipes == StartTranscode({1}, 1) \/ Steps({FALSE}) \/ \E i \in Idx : EncoderLog(i)

SpecPipes == Init /\ [][NextPipes]_vars

----------------------------------------------------------------------------
(* Properties of the runs *)

(* The row of the file at index i of the run *)
RowOf(rows, i) == rows[files[i].rowid]

(* `sub` occurs in `str` *)
Contains(str, sub) ==
    \E k \in 1..(Len(str) - Len(sub) + 1) : SubSeq(str, k, k + Len(sub) - 1) = sub

(* Indices of the files whose encoder is a live process *)
Live == {i \in Idx : proc[i].state = "running"}

(* The step is the one in which transcode_file starts on file i *)
BeginStep(i) == job[i].pc = "todo" /\ job'[i].pc # "todo"

(* The step is the one in which wait_with_output returns for file i *)
EncoderExitStep(i) ==
    job[i].pc = "read" /\ proc[i].state = "running" /\ proc'[i].state = "reaped"

(* ... with a zero exit status *)
ExitedZero(i) == EncoderExitStep(i) /\ proc'[i].output[1].code = 0

(* C3: a row starts at Pending and, once Success or Error, keeps its       *)
(* status through every later scan and transcode command.                  *)
C3_StatusTerminal ==
    [][/\ \A r \in DOMAIN ledger :
            ledger[r].status \in {Success, Error} => ledger'[r].status = ledger[r].status
       /\ \A r \in DOMAIN ledger' \ DOMAIN ledger : ledger'[r].status = Pending]_vars

(* C4: no encoder runs for a file whose row is Success: a file a run has   *)
(* finished is not handed to the encoder by a later run.                   *)
C4_SuccessNotEncodedAgain ==
    \A i \in Idx : proc[i].state = "running" => RowOf(ledger, i).status # Success

(* C5: during transcode_all at most run.parallel encoders are live, and    *)
(* at most one of them was spawned by each worker.                         *)
C5_AtMostParallelLive ==
    run.phase = "running"
      => /\ Cardinality(Live) <= run.parallel
         /\ \A w \in 1..run.parallel : Cardinality({i \in Live : job[i].by = w}) <= 1

(* C6: when the encoder of a file exits non-zero and the store takes the   *)
(* write, the row of the file is Error with a message that contains what   *)
(* the encoder left on stderr, and no file is created, removed or renamed. *)
C6_EncodeFailureRecorded ==
    [][\A i \in Idx :
         (/\ EncoderExitStep(i)
          /\ proc'[i].output[1].code # 0
          /\ job'[i].outcome # "store_error")
           => /\ RowOf(ledger', i).status = Error
              /\ RowOf(ledger', i).error_message # None
              /\ Contains(RowOf(ledger', i).error_message[1],
                          proc'[i].output[1].stderr.text)
              /\ fs' = fs]_vars

(* C7: whichever files fail, every file reaches an outcome and             *)
(* transcode_all returns Ok; it returns an error only before any file is   *)
(* started.  Stated for the runs in which no worker aborts on a progress   *)
(* line.                                                                   *)
C7_FailuresIsolated ==
    (/\ run.phase = "returned"
     /\ \A i \in Idx : job[i].outcome = "panic" => proc[i].state = "reaped")
      => /\ run.result \in {"Ok", "Err"}
         /\ run.result = "Err" => Idx = {}
         /\ \A i \in Idx : job[i].pc = "done" /\ job[i].outcome # "none"

(* C8: a file whose out_file exists when transcode_file starts on it is    *)
(* skipped: no encoder is spawned for it, neither then nor later in the    *)
(* run, and the step writes no row and touches no file.                    *)
C8_ExistingOutputSkipped ==
    [][/\ \A i \in Idx :
            (BeginStep(i) /\ Exists(fs, OutFile(files[i].path)))
              => /\ job'[i].pc = "done"
                 /\ job'[i].outcome = "skipped"
                 /\ UNCHANGED <<ledger, fs, proc, total_progress>>
       /\ \A i \in Idx :
            job[i].outcome = "skipped" => run'.phase = "idle" \/ UNCHANGED <<job[i], proc[i]>>
       /\ \A i \in Idx : job[i].outcome = "skipped" => proc[i] = NoProc]_vars

(* A run in which a file was skipped because its out_file exists *)
C8_Witness ==
    \E i \in Idx :
        /\ job[i].outcome = "skipped"
        /\ Exists(fs, OutFile(files[i].path))
        /\ ~run.dry_run

(* C9: when the encoder exits zero and the temporary file is not smaller   *)
(* than the recorded file_size, the next step of the file removes the      *)
(* temporary file and nothing else, the file is done, and neither step     *)
(* writes the ledger.                                                      *)
C9_NotSmallerDiscarded ==
    [][\A i \in Idx :
         LET file == files[i]
             tmp_file == TmpFile(file.path)
         IN  /\ (ExitedZero(i) /\ Exists(fs, tmp_file)
                               /\ fs[tmp_file].size >= file.file_size)
                  => /\ job'[i].pc = "remove_tmp" \/ job'[i].outcome = "fs_error"
                     /\ UNCHANGED <<ledger, fs>>
             /\ (job[i].pc = "remove_tmp" /\ job'[i] # job[i])
                  => /\ job'[i].pc = "done"
                     /\ job'[i].outcome \in {"not_smaller", "fs_error"}
                     /\ job'[i].outcome = "not_smaller" => ~Exists(fs', tmp_file)
                     /\ \A p \in AllPaths \ {tmp_file} : fs'[p] = fs[p]
                     /\ ledger' = ledger]_vars

(* A file whose output was not smaller: the temporary file is gone, the    *)
(* source is in place, the row is as the scan made it.                     *)
C9_Witness ==
    \E i \in Idx :
        /\ job[i].outcome = "not_smaller"
        /\ ~Exists(fs, TmpFile(files[i].path))
        /\ Exists(fs, files[i].path)
        /\ RowOf(ledger, i).status = Pending
        /\ RowOf(ledger, i).updated_on = RowOf(ledger, i).created_on

(* C10: when the encoder exits zero and the temporary file is smaller than *)
(* the recorded file_size, the file goes on to finalize: with replace the  *)
(* original is removed and then the temporary file renamed to its path,    *)
(* without replace the temporary file is renamed to out_file and the       *)
(* original stays; after either rename the temporary path does not exist;  *)
(* then the row is written Success with no error_message.  A step that     *)
(* fails ends the file and changes nothing.                                *)
C10_SmallerFinalized ==
    [][\A i \in Idx :
         LET file == files[i]
             tmp_file == TmpFile(file.path)
             out_file == OutFile(file.path)
             failed == job'[i].pc = "done" /\ job'[i].outcome \in {"fs_error", "store_error"}
         IN  /\ (ExitedZero(i) /\ Exists(fs, tmp_file)
                               /\ fs[tmp_file].size < file.file_size)
                  => /\ \/ job'[i].pc = (IF run.replace THEN "remove_orig" ELSE "rename_out")
                        \/ job'[i].outcome = "fs_error"
                     /\ UNCHANGED <<ledger, fs>>
             /\ (job[i].pc = "remove_orig" /\ job'[i] # job[i])
                  => \/ /\ job'[i].pc = "rename_replace"
                        /\ fs' = [fs EXCEPT ![file.path] = NoFile]
                        /\ ledger' = ledger
                     \/ failed /\ UNCHANGED <<ledger, fs>>
             /\ (job[i].pc = "rename_replace" /\ job'[i] # job[i])
                  => \/ /\ job'[i].pc = "set_success"
                        /\ Exists(fs, tmp_file)
                        /\ fs' = [fs EXCEPT ![file.path] = fs[tmp_file], ![tmp_file] = NoFile]
                        /\ ledger' = ledger
                     \/ failed /\ UNCHANGED <<ledger, fs>>
             /\ (job[i].pc = "rename_out" /\ job'[i] # job[i])
                  => \/ /\ job'[i].pc = "set_success"
                        /\ Exists(fs, tmp_file)
                        /\ fs' = [fs EXCEPT ![out_file] = fs[tmp_file], ![tmp_file] = NoFile]
                        /\ ledger' = ledger
                     \/ failed /\ UNCHANGED <<ledger, fs>>
             /\ (job[i].pc = "set_success" /\ job'[i] # job[i])
                  => \/ /\ job'[i].pc = "done"
                        /\ job'[i].outcome = "success"
                        /\ ledger' = [ledger EXCEPT ![file.rowid] =
                                        [@ EXCEPT !.status = Success,
                                                  !.error_message = None,
                                                  !.updated_on = now]]
                        /\ fs' = fs
                     \/ failed /\ UNCHANGED <<ledger, fs>>]_vars

(* A file replaced in place: the transcoded pictures are at the source     *)
(* path and the row is Success.                                            *)
C10_Witness ==
    \E i \in Idx :
        /\ job[i].outcome = "success"
        /\ run.replace
        /\ fs[files[i].path].codec = "av1"
        /\ fs[files[i].path].size < files[i].file_size
        /\ RowOf(ledger, i).status = Success
        /\ RowOf(ledger, i).error_message = None

(* C11: when a filesystem call of finalize fails after a zero exit (the    *)
(* size of the temporary file, the removal of the original, a rename),     *)
(* the row of the file is written Error with a message.                    *)
C11_FinalizeFailureRecorded ==
    [][\A i \in Idx :
         (job[i].pc # "done" /\ job'[i].pc = "done" /\ job'[i].outcome = "fs_error")
           => /\ RowOf(ledger', i).status = Error
              /\ RowOf(ledger', i).error_message # None]_vars

(* C12: when ffmpeg cannot be spawned for a file, the row of the file is   *)
(* written Error with a message.                                           *)
C12_SpawnFailureRecorded ==
    \A i \in Idx :
        job[i].outcome = "spawn_failed"
          => /\ RowOf(ledger, i).status = Error
             /\ RowOf(ledger, i).error_message # None

(* The sum of (file.duration * 1000) over the files at the indices S *)
RECURSIVE SumMillis(_)
SumMillis(S) ==
    IF S = {} THEN 0
    ELSE LET i == CHOOSE x \in S : TRUE
         IN  files[i].duration * 1000 + SumMillis(S \ {i})

(* C13 as stated: a dry run spawns nothing, touches no file and no row,    *)
(* and credits every selected file: when it returns the aggregate is the   *)
(* sum of the expected durations of all selected files.                    *)
C13_DryRunCreditsAll ==
    (run.dry_run /\ run.phase = "returned" /\ run.result = "Ok")
      => /\ total_progress = SumMillis(Idx)
         /\ \A i \in Idx : proc[i] = NoProc

(* C13 amended: a dry run spawns nothing, touches no file and no row; a    *)
(* selected file whose out_file exists is skipped without credit, every    *)
(* other selected file is credited (file.duration * 1000); when the run    *)
(* returns the aggregate is the sum over the files that were not skipped.  *)
C13_DryRunCreditsUnskipped ==
    [][(run.dry_run /\ run.phase = "running")
         => /\ UNCHANGED <<ledger, fs, proc>>
            /\ \A i \in Idx : proc[i] = NoProc
            /\ \A i \in Idx :
                 BeginStep(i)
                   => /\ job'[i].outcome =
                           (IF Exists(fs, OutFile(files[i].path)) THEN "skipped" ELSE "dry_run")
                      /\ total_progress' = total_progress +
                           (IF Exists(fs, OutFile(files[i].path)) THEN 0
                            ELSE files[i].duration * 1000)
            /\ run'.phase = "returned"
                 => /\ run'.result = "Ok"
                    /\ total_progress =
                         SumMillis({i \in Idx : job[i].outcome = "dry_run"})]_vars

(* A dry run that returned having skipped one file and credited another *)
C13_Witness ==
    /\ run.dry_run
    /\ run.phase = "returned"
    /\ \E i, j \in Idx : job[i].outcome = "skipped" /\ job[j].outcome = "dry_run"
    /\ total_progress = 2000
    /\ \A i \in Idx : RowOf(ledger, i).status = Pending

(* C14: each progress line that is processed leaves the file's credited    *)
(* total at floor(out_time_us / 1000), whatever lines came before it: the  *)
(* delta added to the file and then to the aggregate is the difference to  *)
(* the total before, and nothing else changes the file's total.  A stream  *)
(* rising to D * 1000000 so credits D * 1000.                              *)
C14_CreditedIsLastPosition ==
    [][\A i \in Idx :
         /\ (job[i].pc = "read" /\ job'[i].pc = "credit")
              => \E us \in OutTimes :
                    /\ job'[i].pos = us \div 1000
                    /\ job'[i].delta = (us \div 1000 - job[i].pos) % WordMod
         /\ (job[i].pc = "credit" /\ job'[i].pc = "read")
              => /\ total_progress' = (total_progress + job[i].delta) % WordMod
                 /\ job'[i].pos = job[i].pos
                 /\ job'[i].last_postion = job[i].pos
         /\ (job[i].pc = "read" /\ job'[i].pc \notin {"read", "credit"})
              => job'[i].pos = job[i].pos]_vars

(* The only file of a run, of duration D = 1, after the lines 1500 and     *)
(* 1000000: the aggregate holds D * 1000.                                  *)
C14_Witness ==
    /\ Idx = {1}
    /\ job[1].pc = "read"
    /\ job[1].pos = 1000
    /\ files[1].duration = 1
    /\ total_progress = files[1].duration * 1000

(* C15: during a run the aggregate never decreases, and no progress line   *)
(* aborts the worker that reads it.                                        *)
C15_ProgressMonotone ==
    [][(run.phase = "running" /\ run'.phase = "running")
         => /\ total_progress' >= total_progress
            /\ \A i \in Idx :
                 ~(job[i].pc = "read" /\ job'[i].outcome = "panic"
                                      /\ proc'[i].state = "running")]_vars

(* The sum of the field f of the jobs at the indices S *)
RECURSIVE SumJobs(_, _)
SumJobs(S, f) ==
    IF S = {} THEN 0
    ELSE LET i == CHOOSE x \in S : TRUE
         IN  job[i][f] + SumJobs(S \ {i}, f)

(* C16 as stated: in a run that is not a dry run the aggregate equals the  *)
(* sum of the files' own counters at every state.                          *)
C16_TotalIsSumAlways ==
    (~run.dry_run /\ run.phase \in {"running", "returned"})
      => total_progress = SumJobs(Idx, "pos") % WordMod

(* C16 amended: the aggregate equals the sum of the files' own counters    *)
(* less the deltas that workers have added to their file and not yet to    *)
(* the aggregate; so the two are equal whenever no worker is between the   *)
(* two increments, and when the run returns.                               *)
C16_TotalIsSumOfCredited ==
    (~run.dry_run /\ run.phase \in {"running", "returned"})
      => /\ (total_progress + SumJobs(Idx, "delta")) % WordMod
              = SumJobs(Idx, "pos") % WordMod
         /\ run.phase = "returned" => SumJobs(Idx, "delta") = 0

(* Two files read at the same time, both credited in full *)
C16_Witness ==
    /\ ~run.dry_run
    /\ \E i, j \in Idx :
          /\ i # j
          /\ job[i].pc = "read" /\ job[j].pc = "read"
          /\ job[i].pos = 1000 /\ job[j].pos = 1000
    /\ total_progress = 2000

----------------------------------------------------------------------------
(* list_limit on its own: any table of up to MaxRows rows, any limit *)

MaxRows == 3        \* rows of the table in the list specification

(* The paths of the rows, in rowid order *)
ListPaths == <<Path("a", "mkv"), Path("a", "avi"), Path("b", "mkv"), Path("b", "avi")>>

(* --number values: none, 0 .. MaxRows + 1, and a negative one *)
Counts == {None} \cup {Some(n) : n \in (0..(MaxRows + 1)) \cup {-1}}

(* A table whose rows have the sizes sz, inserted in that order *)
TableOf(sz) ==
    [i \in DOMAIN sz |->
        NewRow([path |-> ListPaths[i],
                file_size |-> sz[i],
                ffprobe_info |-> Probe("h264", 1)], 0)]

InitList ==
    /\ \E n \in 0..MaxRows : \E sz \in [1..n -> 1..(MaxSize + 1)] : ledger = TableOf(sz)
    /\ fs = Disk({})
    /\ now = 0
    /\ op = NoOp
    /\ run = NoRun
    /\ files = <<>>
    /\ job = <<>>
    /\ proc = <<>>
    /\ total_progress = 0

(* Database::list_limit(count); Database::list is list_limit(None) *)
LedgerList ==
    \E count \in Counts : \E rows \in ListLimit(ledger, count) :
        /\ op' = ListOp(count, rows)
        /\ UNCHANGED <<ledger, fs, now, run, files, job, proc, total_progress>>

NextList == LedgerList

SpecList == InitList /\ [][NextList]_vars

(* C17: list_limit returns rows of the table, each once, in non-increasing *)
(* file_size order; all of them with no limit, min(N, row count) of them   *)
(* with a limit N >= 0, and then no row left out is larger than a row      *)
(* returned.                                                               *)
C17_ListLimitLargestFirst ==
    (op.name = "list_limit" /\ (op.count = None \/ op.count[1] >= 0))
      => LET rows == op.rows
             n == IF op.count = None \/ op.count[1] > Len(ledger) THEN Len(ledger)
                  ELSE op.count[1]
         IN  /\ Len(rows) = n
             /\ \A k \in DOMAIN rows :
                   /\ rows[k].rowid \in DOMAIN ledger
                   /\ rows[k] = [rowid |-> rows[k].rowid] @@ ledger[rows[k].rowid]
             /\ \A k, l \in DOMAIN rows : k # l => rows[k].rowid # rows[l].rowid
             /\ \A k, l \in DOMAIN rows : k < l => rows[k].file_size >= rows[l].file_size
             /\ \A r \in DOMAIN ledger :
                   (\A k \in DOMAIN rows : rows[k].rowid # r)
                     => \A k \in DOMAIN rows : rows[k].file_size >= ledger[r].file_size

(* Sizes 2, 1, 3 listed with limit 2: the rows of size 3 and 2, in that    *)
(* order.                                                                  *)
C17_Witness ==
    /\ op.name = "list_limit"
    /\ op.count = Some(2)
    /\ Len(ledger) = 3
    /\ <<ledger[1].file_size, ledger[2].file_size, ledger[3].file_size>> = <<2, 1, 3>>
    /\ <<op.rows[1].file_size, op.rows[2].file_size>> = <<3, 2>>

----------------------------------------------------------------------------
(* Selection and the excluded codecs *)

(* The transcode command has listed the rows and started its run *)
StartStep == run.phase = "idle" /\ run'.phase = "running"

(* C18: no file whose probed codec is hevc or av1 becomes a work item, and *)
(* such a file takes no place of the limit: the work items of a run are    *)
(* rows of the ledger, none of them hevc or av1, and as many as the limit  *)
(* allows (every row, or min(N, rows)).                                    *)
C18_ExcludedCodecsNotSelected ==
    [][StartStep =>
        /\ \A r \in DOMAIN ledger : ledger[r].ffprobe_info[1].codec \notin {"hevc", "av1"}
        /\ \A i \in DOMAIN files' :
              /\ files'[i].codec \notin {"hevc", "av1"}
              /\ files'[i].rowid \in DOMAIN ledger
              /\ ledger[files'[i].rowid].path = files'[i].path
        /\ \E number \in Numbers :
              Len(files') = IF number = None THEN Len(ledger)
                            ELSE Min(number[1], Len(ledger))
        /\ \A p \in AllPaths :
              (Exists(fs, p) /\ fs[p].codec \in {"hevc", "av1"})
                => \A i \in DOMAIN files' : files'[i].path # p]_vars

(* A run over a scanned directory that holds an av1 file with a video      *)
(* extension: two rows, one work item taken with the limit 1.              *)
C18_Witness ==
    /\ run.phase = "running"
    /\ \E p \in AllPaths : IsCandidate(fs, p) /\ fs[p].codec = "av1"
    /\ Len(ledger) = 2
    /\ Len(files) = 1
    /\ \A i \in DOMAIN job : job[i].pc # "done"

----------------------------------------------------------------------------
(* Rows without probe info *)

(* The row Database::insert creates: the statement names path, the two     *)
(* timestamps and file_size; ffprobe_info is not written.                  *)
NewRowNoProbe(file, t) == [NewRow(file, t) EXCEPT !.ffprobe_info = None]

(* Database::insert(file) for a file on disk; a second row of one path     *)
(* fails on the UNIQUE constraint.                                         *)
Insert ==
    /\ run.phase = "idle"
    /\ Len(ledger) < MaxBatch
    /\ \E path \in SrcPaths : \E t \in now..MaxTime :
          LET file == [path |-> path, file_size |-> fs[path].size,
                       ffprobe_info |-> FfprobeOf(fs, path)]
              r == IF HasPath(ledger, path) THEN Err("UNIQUE constraint failed")
                   ELSE Ok(Append(ledger, NewRowNoProbe(file, t)))
          IN  /\ Exists(fs, path)
              /\ now' = t
              /\ ledger' = IF r.ok THEN r.val ELSE ledger
              /\ op' = [NoOp EXCEPT !.name = "insert", !.paths = {path},
                                    !.result = IF r.ok THEN "Ok" ELSE r.err]
    /\ UNCHANGED <<fs, run, files, job, proc, total_progress>>

(* One transcode command with one thread over a ledger written by scan and *)
(* by insert, on a store and a filesystem that do not fail.                *)
NextInsert == Insert \/ StartTranscode({1}, 1) \/ Steps({FALSE})

SpecInsert == Init /\ [][NextInsert]_vars

----------------------------------------------------------------------------
(* Success rows *)

(* C20: every row with status Success has updated_on >= created_on and no  *)
(* error_message, whatever the row held before it was written Success.     *)
C20_SuccessRowsClean ==
    \A r \in DOMAIN ledger :
        ledger[r].status = Success
          => /\ ledger[r].updated_on >= ledger[r].created_on
             /\ ledger[r].error_message = None

(* A row written Success at a later time than its insert, that was Error   *)
(* before the write.                                                       *)
C20_Witness ==
    /\ op.name = "set_file_status"
    /\ op.result = "Ok"
    /\ op.status = Success
    /\ op.was = Error
    /\ ledger[op.rowid].status = Success
    /\ ledger[op.rowid].updated_on > ledger[op.rowid].created_on

----------------------------------------------------------------------------
(* Error rows *)

(* C21: every row with status Error has an error_message that is present   *)
(* and not empty, and every row with status Pending or Success has none.   *)
C21_MessageIffError ==
    \A r \in DOMAIN ledger :
        IF ledger[r].status = Error
        THEN ledger[r].error_message # None /\ Len(ledger[r].error_message[1]) > 0
        ELSE ledger[r].error_message = None

(* A run in which one file was written Error with the message of           *)
(* commandline_error and another was written Success.                      *)
C21_Witness ==
    /\ \E i \in Idx :
          /\ job[i].outcome = "encode_failed"
          /\ RowOf(ledger, i).status = Error
          /\ Contains(RowOf(ledger, i).error_message[1], "failed with exit code 1")
    /\ \E i \in Idx :
          /\ job[i].outcome = "success"
          /\ RowOf(ledger, i).status = Success
          /\ RowOf(ledger, i).error_message = None

----------------------------------------------------------------------------
(* insert_batch and its transaction *)

(* C22: an insert_batch that returns an error leaves the table as it was:  *)
(* no record of the batch is visible afterwards, at whichever statement    *)
(* the failure came; one that returns Ok leaves a row for every path of    *)
(* the batch, a new row for each path that had none.                       *)
C22_InsertBatchAllOrNothing ==
    [][IsInsertBatchStep
         => IF op'.result = "Ok"
            THEN /\ \A p \in op'.paths : HasPath(ledger', p)
                 /\ Len(ledger') =
                      Len(ledger) + Cardinality({p \in op'.paths : ~HasPath(ledger, p)})
            ELSE ledger' = ledger]_vars

(* A batch of two paths that had no row, failed: neither has a row *)
C22_Witness ==
    /\ op.name = "insert_batch"
    /\ op.result # "Ok"
    /\ Cardinality(op.paths) = 2
    /\ \A p \in op.paths : ~HasPath(ledger, p)

----------------------------------------------------------------------------
(* Paths of the work items *)

(* C23: two distinct files of a run have distinct temporary paths and      *)
(* distinct output paths, two files of one directory that differ in their  *)
(* extension only included.                                                *)
C23_TmpPathsDistinct ==
    \A i, j \in Idx :
        i # j => /\ TmpFile(files[i].path) # TmpFile(files[j].path)
                 /\ OutFile(files[i].path) # OutFile(files[j].path)

----------------------------------------------------------------------------
(* The source files *)

(* C24: the file at the path of a ledger row changes (is removed, renamed  *)
(* onto or overwritten) in a step of the run only in replace mode, by the  *)
(* job of that file, after its encoder exited zero and it measured a       *)
(* temporary file strictly smaller than the recorded size; without         *)
(* --replace no such path ever changes.                                    *)
C24_SourceKeptUnlessReplace ==
    [][\A r \in DOMAIN ledger :
          fs'[ledger[r].path] # fs[ledger[r].path]
            => /\ run.phase = "running"
               /\ run.replace
               /\ \E i \in Idx :
                    /\ files[i].rowid = r
                    /\ job[i].pc \in {"remove_orig", "rename_replace"}
                    /\ job'[i].pc # job[i].pc
                    /\ proc[i].state = "reaped"
                    /\ proc[i].output[1].code = 0
                    /\ job[i].new_file_size < files[i].file_size]_vars

(* Replace mode, after fs::remove_file(&file.path): the source file is     *)
(* gone and the temporary file is about to be renamed onto its path.       *)
C24_Witness ==
    \E i \in Idx :
        /\ run.replace
        /\ job[i].pc = "rename_replace"
        /\ ~Exists(fs, files[i].path)
        /\ job[i].new_file_size < files[i].file_size

(* C25: once transcode_file has ended for a file, with whatever outcome, a *)
(* file exists at the path of the source, holding the pictures of that     *)
(* source as h264 (the original) or as av1 (the transcoded output).        *)
C25_ReplaceLeavesAFile ==
    \A i \in Idx :
        job[i].pc = "done"
          => /\ Exists(fs, files[i].path)
             /\ fs[files[i].path].of = files[i].path

----------------------------------------------------------------------------
(* The pool *)

(* C26: within a run, a file that a worker has taken is not handed out     *)
(* again and stays with that worker; a file gets at most one encoder       *)
(* process; and transcode_all returns only when every selected file has    *)
(* been taken by one of the run's workers and transcode_file has ended for *)
(* it.                                                                     *)
C26_EachFileOnce ==
    [][/\ run'.phase # "idle"
            => \A i \in Idx :
                  /\ job[i].pc # "todo"
                        => job'[i].pc # "todo" /\ job'[i].by = job[i].by
                  /\ BeginStep(i) => job'[i].by \in 1..run.parallel
                  /\ proc[i].state # "none"
                        => /\ proc'[i].state # "none"
                           /\ proc'[i].state = "running" => proc[i].state = "running"
       /\ (run.phase = "running" /\ run'.phase = "returned")
            => \A i \in Idx : job[i].pc = "done" /\ job[i].by \in 1..run.parallel]_vars

(* A run of two files that has returned: each was taken by another worker  *)
(* and each had its one encoder, reaped.                                   *)
C26_Witness ==
    /\ run.phase = "returned"
    /\ Len(files) = 2
    /\ job[1].by # job[2].by
    /\ \A i \in Idx : job[i].pc = "done" /\ proc[i].state = "reaped"

----------------------------------------------------------------------------
(* The pipes of the encoder *)

(* C27: the worker and its encoder are never both blocked on the pipes:    *)
(* there is no state in which the encoder is in a write to a full pipe     *)
(* while the worker waits for a line of the other pipe.                    *)
C27_NoPipeDeadlock ==
    \A i \in Idx :
        ~(/\ proc[i].state = "running"
          /\ proc[i].blocked
          /\ job[i].pc = "read")

----------------------------------------------------------------------------
(* Termination of a run *)

(* One transcode command with one thread, on a store and a filesystem that *)
(* do not fail.                                                            *)
NextOne == StartTranscode({1}, 1) \/ Steps({FALSE})

(* A step of the worker thread that depends on nothing but the thread      *)
(* being scheduled.                                                        *)
WorkerStep ==
    \/ \E i \in Idx : \E w \in 1..MaxParallel : Begin(w, i, FALSE)
    \/ \E i \in Idx : IncTotal(i)
    \/ \E i \in Idx : RemoveTmp(i, FALSE)
    \/ \E i \in Idx : RemoveOrig(i, FALSE)
    \/ \E i \in Idx : RenameReplace(i, FALSE)
    \/ \E i \in Idx : RenameOut(i, FALSE)
    \/ \E i \in Idx : SetSuccess(i, FALSE)
    \/ FinishRun

(* The encoder a worker reads from closes its output and exits *)
EncoderEnds ==
    \E i \in Idx : \E code \in ExitCodes : \E stderr \in Stderrs :
        WaitWithOutput(i, code, stderr, FALSE)

(* The encoder whose Child was dropped exits *)
OrphanEnds == \E i \in Idx : EncoderExit(i)

(* The worker thread is scheduled fairly, and every encoder that was       *)
(* spawned ends: it cannot print progress lines for ever.                  *)
SpecFair ==
    /\ Init
    /\ [][NextOne]_vars
    /\ WF_vars(WorkerStep)
    /\ SF_vars(EncoderEnds)
    /\ WF_vars(OrphanEnds)

(* transcode_file has ended for every file of the run, each with one       *)
(* outcome, and no encoder is a live process.                              *)
Settled ==
    /\ \A i \in Idx : job[i].pc = "done" /\ job[i].outcome # "none"
    /\ Live = {}

(* C28: a run that has started returns, and when it has returned every     *)
(* selected file has its outcome and no encoder is still live.             *)
C28_RunReturnsSettled ==
    (run.phase = "running") ~> (run.phase = "returned" /\ Settled)

(* The same without the encoders: a run that has started returns with      *)
(* transcode_file ended for every file.                                    *)
RunReturns ==
    (run.phase = "running") ~> (run.phase = "returned" /\ \A i \in Idx : job[i].pc = "done")

----------------------------------------------------------------------------
(* The Success write *)

(* The step is the call set_file_status(rowid, Success, None) of file i *)
SetSuccessStep(i) == job[i].pc = "set_success" /\ job'[i].pc = "done"

(* Where the output of a file ends up: its own path with --replace, the    *)
(* out_file without.                                                       *)
Destination(file) == IF run.replace THEN file.path ELSE OutFile(file.path)

(* C29: when a run writes Success for a file, the transcoded output is at  *)
(* its destination and nothing is at the temporary path; a write that      *)
(* fails leaves the files and the row as they are.                         *)
C29_SuccessAfterFinalize ==
    [][\A i \in Idx :
         SetSuccessStep(i)
           => /\ Exists(fs, Destination(files[i]))
              /\ fs[Destination(files[i])].codec = "av1"
              /\ ~Exists(fs, TmpFile(files[i].path))
              /\ fs' = fs
              /\ job'[i].outcome # "success" => ledger' = ledger]_vars

====
